---- MODULE Spec2Model ----
(***************************************************************************)
(* Model of newrelic_synthetics/monitors.py: the Monitors resource client. *)
(*                                                                         *)
(* Python values are modelled as follows.                                  *)
(*   - None is the empty tuple and any other optional value v is <<v>>.     *)
(*   - A str the code takes apart or builds character by character (the     *)
(*     Location header, the page filter) is a sequence of one-character     *)
(*     strings.  A URL is a sequence of pieces; str.format concatenates.    *)
(*   - A dict is a function whose domain is its set of keys.                *)
(*   - The result of a call is [kind |-> "return", val |-> v] or            *)
(*     [kind |-> "raise", val |-> <exception name>].                        *)
(* The base class (module .base: _get, _post, _put, _delete,                *)
(* build_param_string, URL, headers) is not part of the source file; it is  *)
(* modelled from the specification.                                        *)
(***************************************************************************)
EXTENDS Integers, Sequences, FiniteSets, TLC

VARIABLES
    URL,        \* self.URL
    headers,    \* self.headers
    last,       \* history: the most recent call, what it sent and how it ended
    prev        \* history: the call before it (recorded under SpecSeq only)

vars == <<URL, headers, last, prev>>

\* ------------------------------------------------------------------ bounds
MaxLoc == 3
MaxPage == 12

\* ------------------------------------------------------------- Python values
None == <<>>
Some(v) == <<v>>

Return(v) == [kind |-> "return", val |-> v]
Raise(e) == [kind |-> "raise", val |-> e]

EmptyDict == [k \in {} |-> <<>>]

\* d.update(**kw): the keys of kw are added to d, kw's value replacing d's
dict_update(d, kw) ==
    [k \in (DOMAIN d) \cup (DOMAIN kw) |-> IF k \in DOMAIN kw THEN kw[k] ELSE d[k]]

\* str(n) for n >= 0, as '{0}'.format(n) writes it
DigitChars == <<"0", "1", "2", "3", "4", "5", "6", "7", "8", "9">>
RECURSIVE str_int(_)
str_int(n) ==
    IF n < 10 THEN <<DigitChars[n + 1]>>
    ELSE str_int(n \div 10) \o <<DigitChars[(n % 10) + 1]>>

\* s.split('/', 1) in place of s.rsplit('/', 1): split once, at the first '/'
split_first(s) ==
    IF \E i \in 1..Len(s) : s[i] = "/"
    THEN LET i == CHOOSE i \in 1..Len(s) : s[i] = "/" /\ \A j \in 1..(i - 1) : s[j] # "/"
         IN  <<SubSeq(s, 1, i - 1), SubSeq(s, i + 1, Len(s))>>
    ELSE <<s>>

\* s.rsplit('/', 1): split once, at the last '/'
last_slash(s) ==
    IF \E i \in 1..Len(s) : s[i] = "/"
    THEN CHOOSE i \in 1..Len(s) : s[i] = "/" /\ \A j \in (i + 1)..Len(s) : s[j] # "/"
    ELSE 0
rsplit(s) ==
    IF last_slash(s) = 0 THEN <<s>>
    ELSE <<SubSeq(s, 1, last_slash(s) - 1), SubSeq(s, last_slash(s) + 1, Len(s))>>

\* A call binds when no keyword extra repeats a named parameter of the method;
\* otherwise Python raises TypeError before the method body runs.
create_params == {"self", "name", "type", "frequency", "locations", "status"}
update_params == {"self", "id", "name", "type", "frequency", "locations", "status"}
binds(params, kwargs) == (DOMAIN kwargs) \cap params = {}

\* ------------------------------------------------------- the base client
BaseURL == <<"https://synthetics.newrelic.com/synthetics/api/v3/">>
BaseHeaders == ("X-Api-Key" :> "key") @@ ("Content-type" :> "application/json")

\* The outcome of one HTTP exchange, chosen by the network and the server.
NoResponse == [kind |-> "none", exc |-> "", status |-> 0, headers |-> EmptyDict, body |-> EmptyDict]
ErrorResponse(e) == [kind |-> "error", exc |-> e, status |-> 0, headers |-> EmptyDict, body |-> EmptyDict]
HttpResponse(s, h, b) == [kind |-> "http", exc |-> "", status |-> s, headers |-> h, body |-> b]

is_2xx(status) == status >= 200 /\ status <= 299

\* The request a primitive puts on the wire: one per invocation.
wire(method, call) ==
    <<[method |-> method, url |-> call.url, headers |-> call.headers,
       params |-> call.params, data |-> call.data]>>

\* The raw response object handed back under get_raw_response=True.
raw_response(resp) == [ok |-> is_2xx(resp.status), status_code |-> resp.status, headers |-> resp.headers]

\* '&'.join of the filters that are set
RECURSIVE build_param_string(_)
build_param_string(filters) ==
    IF filters = <<>> THEN <<>>
    ELSE IF Head(filters) = None THEN build_param_string(Tail(filters))
    ELSE LET rest == build_param_string(Tail(filters))
         IN  IF rest = <<>> THEN Head(filters)[1] ELSE Head(filters)[1] \o <<"&">> \o rest

\* _get: the decoded body; a transport error or a non-2xx status is raised
base_get(call, resp) ==
    [requests |-> wire("GET", call),
     transport |-> IF resp.kind = "error" THEN Raise(resp.exc)
                   ELSE IF ~is_2xx(resp.status) THEN Raise("NewRelicAPIServerException")
                   ELSE Return(resp.body)]

\* _post, _put, _delete with get_raw_response=True: the raw response whatever
\* its status; only a transport error is raised
base_raw(method, call, resp) ==
    [requests |-> wire(method, call),
     transport |-> IF resp.kind = "error" THEN Raise(resp.exc) ELSE Return(raw_response(resp))]
base_post(call, resp) == base_raw("POST", call, resp)
base_put(call, resp) == base_raw("PUT", call, resp)
base_delete(call, resp) == base_raw("DELETE", call, resp)

\* ------------------------------------------------------------ class Monitors
\* What a method hands back: the requests it caused, what the primitive it
\* called gave it, and how the method itself ended.
Result(r, outcome) == [requests |-> r.requests, transport |-> r.transport, outcome |-> outcome]

\* the filter left out for the first page as well: ... if page and page > 1 else None
list_filters_from_second(page) ==
    <<IF page # None /\ page[1] > 1
      THEN Some(<<"p", "a", "g", "e", "=">> \o str_int(page[1]))
      ELSE None>>

\* 'page={0}'.format(page) if page else None   (None and 0 are falsy)
list_filters(page) ==
    <<IF page # None /\ page[1] # 0
      THEN Some(<<"p", "a", "g", "e", "=">> \o str_int(page[1]))
      ELSE None>>

\* the body handed on without its 'pages' key
get_return_without_pages(t) ==
    IF t.kind = "return"
    THEN Return([k \in (DOMAIN t.val) \ {"pages"} |-> t.val[k]])
    ELSE t

\* return self._get(...): the primitive's result, or its exception, as it is
get_return(t) == t

list(self, page, resp) ==
    LET r == base_get([url |-> self.URL \o <<"monitors">>, headers |-> self.headers,
                       params |-> Some(build_param_string(list_filters(page))),
                       data |-> None], resp)
    IN  Result(r, get_return(r.transport))

show(self, id, resp) ==
    LET r == base_get([url |-> self.URL \o <<"monitors/">> \o id, headers |-> self.headers,
                       params |-> None, data |-> None], resp)
    IN  Result(r, get_return(r.transport))

show_locations(self, resp) ==
    LET r == base_get([url |-> self.URL \o <<"locations">>, headers |-> self.headers,
                       params |-> None, data |-> None], resp)
    IN  Result(r, get_return(r.transport))

\* the required fields alone: data.update(**kwargs) left out
monitor_data_required_only(a, kwargs) ==
    ("name" :> a.name) @@ ("type" :> a.type) @@ ("frequency" :> a.frequency)
        @@ ("locations" :> a.locations) @@ ("status" :> a.status)

\* data = {five required fields}; data.update(**kwargs)
monitor_data(a, kwargs) ==
    dict_update(("name" :> a.name) @@ ("type" :> a.type) @@ ("frequency" :> a.frequency)
                    @@ ("locations" :> a.locations) @@ ("status" :> a.status),
                kwargs)

\* response.headers.get('Location', '') in place of response.headers['Location']
create_return_default(t) ==
    IF t.kind = "raise" THEN t
    ELSE IF "Location" \notin DOMAIN t.val.headers THEN Return(<<>>)
    ELSE Return(rsplit(t.val.headers["Location"])[Len(rsplit(t.val.headers["Location"]))])

\* return response.headers['Location'].rsplit('/', 1)[-1]
create_return(t) ==
    IF t.kind = "raise" THEN t
    ELSE IF "Location" \notin DOMAIN t.val.headers THEN Raise("KeyError")
    ELSE Return(rsplit(t.val.headers["Location"])[Len(rsplit(t.val.headers["Location"]))])

create(self, a, kwargs, resp) ==
    LET r == base_post([url |-> self.URL \o <<"monitors">>, headers |-> self.headers,
                        params |-> None, data |-> Some(monitor_data(a, kwargs))], resp)
    IN  Result(r, create_return(r.transport))

\* True returned on both branches
ok_return_always_true(t) ==
    IF t.kind = "raise" THEN t ELSE Return(TRUE)

\* the primitive's exception caught and answered with False
ok_return_catching(t) ==
    IF t.kind = "raise" THEN Return(FALSE)
    ELSE IF t.val.ok THEN Return(TRUE) ELSE Return(FALSE)

\* if response.ok: return True / else: return False
ok_return(t) ==
    IF t.kind = "raise" THEN t
    ELSE IF t.val.ok THEN Return(TRUE) ELSE Return(FALSE)

update(self, id, a, kwargs, resp) ==
    LET r == base_put([url |-> self.URL \o <<"monitors/">> \o id, headers |-> self.headers,
                       params |-> None, data |-> Some(monitor_data(a, kwargs))], resp)
    IN  Result(r, ok_return(r.transport))

\* "if scriptLocations:" in place of "if scriptLocations is not None:"
script_data_truthy(scriptText, scriptLocations) ==
    IF scriptLocations # None /\ scriptLocations[1] # <<>>
    THEN ("scriptText" :> scriptText) @@ ("scriptLocations" :> scriptLocations[1])
    ELSE ("scriptText" :> scriptText)

\* data = {'scriptText': ...}; scriptLocations added when it is not None
script_data(scriptText, scriptLocations) ==
    IF scriptLocations # None
    THEN ("scriptText" :> scriptText) @@ ("scriptLocations" :> scriptLocations[1])
    ELSE ("scriptText" :> scriptText)

\* the PUT sent to the monitor's own path, the '/script' suffix left out
update_script_monitor_path(self, id, scriptText, scriptLocations, resp) ==
    LET r == base_put([url |-> self.URL \o <<"monitors/">> \o id,
                       headers |-> self.headers, params |-> None,
                       data |-> Some(script_data(scriptText, scriptLocations))], resp)
    IN  Result(r, ok_return(r.transport))

update_script(self, id, scriptText, scriptLocations, resp) ==
    LET r == base_put([url |-> self.URL \o <<"monitors/">> \o id \o <<"/script">>,
                       headers |-> self.headers, params |-> None,
                       data |-> Some(script_data(scriptText, scriptLocations))], resp)
    IN  Result(r, ok_return(r.transport))

delete(self, id, resp) ==
    LET r == base_delete([url |-> self.URL \o <<"monitors/">> \o id, headers |-> self.headers,
                          params |-> None, data |-> None], resp)
    IN  Result(r, ok_return(r.transport))

\* A call whose keyword extras repeat a parameter never enters the method.
NoTransport == [kind |-> "none", val |-> <<>>]
unbound == [requests |-> <<>>, transport |-> NoTransport, outcome |-> Raise("TypeError")]

\* list assigning the URL it built back to self.URL
self_after_list_keeps_url(op, self) ==
    IF op = "list" /\ self.URL = BaseURL
    THEN [self EXCEPT !.URL = self.URL \o <<"monitors">>]
    ELSE self

\* No method assigns to self.URL or self.headers.
self_after(op, self) == self

\* ------------------------------------------------------------------ inputs
TransportErrors == {"ConnectionError", "Timeout"}
Ids == {<<"m1">>, <<"m2">>}
Names == {"n1", "n2"}
MonitorArgs(N) ==
    {[name |-> n, type |-> "SIMPLE", frequency |-> 5,
      locations |-> <<"AWS_US_EAST_1">>, status |-> "ENABLED"] : n \in N}
Bodies == {("monitors" :> <<"m1">>),
           ("monitors" :> <<"m1", "m2">>) @@ ("pages" :> "next")}
LocChars == {"/", "a", "b"}
LocStrings == UNION {[1..k -> LocChars] : k \in 0..MaxLoc}
Errors(E) == {ErrorResponse(e) : e \in E}
Http(S, H, B) == {HttpResponse(s, h, b) : s \in S, h \in H, b \in B}

\* every input of the bounded model
Full ==
    [pairs |-> FALSE,
     pages |-> {None} \cup {Some(n) : n \in 0..MaxPage},
     ids |-> Ids,
     args |-> MonitorArgs(Names),
     kwargs |-> {EmptyDict, ("uri" :> "u"), ("name" :> "nx"), ("id" :> "m9"),
                 ("uri" :> "u") @@ ("name" :> "nx")},
     scriptLocations |-> {None, Some(<<>>), Some(<<[name |-> "loc", hmac |-> "h"]>>)},
     reads |-> Errors(TransportErrors) \cup Http({200, 301, 404, 500}, {EmptyDict}, Bodies),
     raws |-> Errors(TransportErrors)
              \cup Http({200, 201, 204, 299, 300, 301, 404, 500}, {EmptyDict}, Bodies),
     posts |-> Errors(TransportErrors)
               \cup Http({201}, {EmptyDict} \cup {("Location" :> l) : l \in LocStrings},
                         {EmptyDict})
               \cup Http({400, 500}, {EmptyDict}, {EmptyDict})]

\* a few inputs of each kind, for pairs of calls
Small ==
    [pairs |-> TRUE,
     pages |-> {None, Some(2)},
     ids |-> Ids,
     args |-> MonitorArgs({"n1"}),
     kwargs |-> {EmptyDict, ("uri" :> "u"), ("name" :> "nx")},
     scriptLocations |-> {None, Some(<<>>)},
     reads |-> Errors({"Timeout"}) \cup Http({200, 404}, {EmptyDict}, Bodies),
     raws |-> Errors({"Timeout"}) \cup Http({200, 404}, {EmptyDict}, {EmptyDict}),
     posts |-> Errors({"Timeout"})
               \cup Http({201}, {EmptyDict, ("Location" :> <<"a", "/", "b">>)}, {EmptyDict})]

\* ----------------------------------------------------------------- actions
NoCall ==
    [op |-> "none", args |-> <<>>, kwargs |-> EmptyDict, resp |-> NoResponse,
     requests |-> <<>>, transport |-> NoTransport, outcome |-> [kind |-> "none", val |-> <<>>]]

Self == [URL |-> URL, headers |-> headers]

Finish(I, op, args, kwargs, resp, r) ==
    /\ prev' = IF I.pairs THEN last ELSE prev
    /\ last' = [op |-> op, args |-> args, kwargs |-> kwargs,
                resp |-> IF r.requests = <<>> THEN NoResponse ELSE resp,
                requests |-> r.requests, transport |-> r.transport, outcome |-> r.outcome]
    /\ URL' = self_after(op, Self).URL
    /\ headers' = self_after(op, Self).headers

List(I) ==
    \E page \in I.pages, resp \in I.reads :
        Finish(I, "list", [page |-> page], EmptyDict, resp, list(Self, page, resp))

Show(I) ==
    \E id \in I.ids, resp \in I.reads :
        Finish(I, "show", [id |-> id], EmptyDict, resp, show(Self, id, resp))

ShowLocations(I) ==
    \E resp \in I.reads :
        Finish(I, "show_locations", <<>>, EmptyDict, resp, show_locations(Self, resp))

Create(I) ==
    \E a \in I.args, kwargs \in I.kwargs, resp \in I.posts :
        Finish(I, "create", a, kwargs, resp,
               IF binds(create_params, kwargs) THEN create(Self, a, kwargs, resp) ELSE unbound)

Update(I) ==
    \E id \in I.ids, a \in I.args, kwargs \in I.kwargs, resp \in I.raws :
        Finish(I, "update", [id |-> id, a |-> a], kwargs, resp,
               IF binds(update_params, kwargs) THEN update(Self, id, a, kwargs, resp) ELSE unbound)

UpdateScript(I) ==
    \E id \in I.ids, sl \in I.scriptLocations, resp \in I.raws :
        Finish(I, "update_script", [id |-> id, scriptText |-> "c2NyaXB0", scriptLocations |-> sl],
               EmptyDict, resp, update_script(Self, id, "c2NyaXB0", sl, resp))

Delete(I) ==
    \E id \in I.ids, resp \in I.raws :
        Finish(I, "delete", [id |-> id], EmptyDict, resp, delete(Self, id, resp))

Init ==
    /\ URL = BaseURL
    /\ headers = BaseHeaders
    /\ last = NoCall
    /\ prev = NoCall

\* any sequence of calls, over every input
Next ==
    \/ List(Full)
    \/ Show(Full)
    \/ ShowLocations(Full)
    \/ Create(Full)
    \/ Update(Full)
    \/ UpdateScript(Full)
    \/ Delete(Full)
Spec == Init /\ [][Next]_vars

\* any sequence of calls, each remembered together with the one before it
NextSeq ==
    \/ List(Small)
    \/ Show(Small)
    \/ ShowLocations(Small)
    \/ Create(Small)
    \/ Update(Small)
    \/ UpdateScript(Small)
    \/ Delete(Small)
SpecSeq == Init /\ [][NextSeq]_vars

\* ------------------------------------------------------------- properties
WriteOps == {"update", "update_script", "delete"}
ReadOps == {"list", "show", "show_locations"}
RequiredFields == {"name", "type", "frequency", "locations", "status"}

\* the positional monitor fields of the last create or update
LastFields == IF last.op = "create" THEN last.args ELSE last.args.a
\* the named parameters of the method last called
LastParams == IF last.op = "create" THEN create_params
              ELSE IF last.op = "update" THEN update_params ELSE {"self"}
LastBinds == binds(LastParams, last.kwargs)

\* the method and path of each operation's row in the interface table
TableMethod ==
    [op \in {"list", "show", "show_locations", "create", "update", "update_script", "delete"} |->
        CASE op \in ReadOps -> "GET"
          [] op = "create" -> "POST"
          [] op \in {"update", "update_script"} -> "PUT"
          [] op = "delete" -> "DELETE"]
TablePath ==
    CASE last.op \in {"list", "create"} -> <<"monitors">>
      [] last.op \in {"show", "update", "delete"} -> <<"monitors/">> \o last.args.id
      [] last.op = "show_locations" -> <<"locations">>
      [] last.op = "update_script" -> <<"monitors/">> \o last.args.id \o <<"/script">>

\* reading a decimal numeral back
DigitValue(c) == CHOOSE i \in 0..9 : DigitChars[i + 1] = c
IsNumeral(d) == Len(d) >= 1 /\ \A i \in 1..Len(d) : \E k \in 1..10 : DigitChars[k] = d[i]
RECURSIVE int_of(_)
int_of(d) == IF d = <<>> THEN 0
             ELSE 10 * int_of(SubSeq(d, 1, Len(d) - 1)) + DigitValue(d[Len(d)])

C2_LocationTail ==
    (last.op = "create" /\ last.resp.kind = "http" /\ "Location" \in DOMAIN last.resp.headers) =>
        /\ last.outcome.kind = "return"
        /\ LET h == last.resp.headers["Location"]
               v == last.outcome.val
           IN  /\ Len(v) <= Len(h)
               /\ SubSeq(h, Len(h) - Len(v) + 1, Len(h)) = v
               /\ \A i \in 1..Len(v) : v[i] # "/"
               /\ Len(v) = Len(h) \/ h[Len(h) - Len(v)] = "/"
C2_Witness ==
    /\ last.op = "create"
    /\ last.resp.kind = "http"
    /\ "Location" \in DOMAIN last.resp.headers
    /\ last.resp.headers["Location"] = <<"a", "/", "b">>
    /\ last.outcome.kind = "return"
    /\ last.outcome.val = <<"b">>

C4_PageQuery ==
    (last.op = "list" /\ (last.args.page = None \/ last.args.page[1] >= 1)) =>
        /\ Len(last.requests) = 1
        /\ last.requests[1].method = "GET"
        /\ last.requests[1].params # None
        /\ LET q == last.requests[1].params[1]
           IN  IF last.args.page = None
               THEN q = <<>>
               ELSE /\ Len(q) > 5
                    /\ SubSeq(q, 1, 5) = <<"p", "a", "g", "e", "=">>
                    /\ IsNumeral(SubSeq(q, 6, Len(q)))
                    /\ int_of(SubSeq(q, 6, Len(q))) = last.args.page[1]
C4_Witness ==
    /\ last.op = "list"
    /\ last.args.page = Some(12)
    /\ Len(last.requests) = 1
    /\ last.requests[1].params = Some(<<"p", "a", "g", "e", "=", "1", "2">>)

\* C5: update_script without scriptLocations sends a body whose only key is
\* scriptText; with any scriptLocations that is not None, the empty list
\* included, the body has exactly scriptText and scriptLocations, the latter
\* the caller's value.
C5_ScriptBody ==
    last.op = "update_script" =>
        /\ Len(last.requests) = 1
        /\ last.requests[1].data # None
        /\ LET d == last.requests[1].data[1]
           IN  /\ d["scriptText"] = last.args.scriptText
               /\ IF last.args.scriptLocations = None
                  THEN DOMAIN d = {"scriptText"}
                  ELSE /\ DOMAIN d = {"scriptText", "scriptLocations"}
                       /\ d["scriptLocations"] = last.args.scriptLocations[1]
C5_Witness ==
    /\ last.op = "update_script"
    /\ last.args.scriptLocations = Some(<<>>)
    /\ Len(last.requests) = 1
    /\ DOMAIN last.requests[1].data[1] = {"scriptText", "scriptLocations"}
    /\ last.requests[1].data[1]["scriptLocations"] = <<>>

C8_TransportErrorPropagates ==
    last.resp.kind = "error" =>
        /\ last.outcome.kind = "raise"
        /\ last.outcome.val = last.resp.exc
C8_Witness ==
    /\ last.op = "update"
    /\ last.resp.kind = "error"
    /\ last.resp.exc = "Timeout"
    /\ last.outcome.kind = "raise"
    /\ last.outcome.val = "Timeout"

\* C9: when the response to create's POST has no Location header, create
\* fails with an error and returns no ID; the POST was issued exactly once.
C9_NoLocationFails ==
    (last.op = "create" /\ last.resp.kind = "http" /\ "Location" \notin DOMAIN last.resp.headers) =>
        /\ last.outcome.kind = "raise"
        /\ Len(last.requests) = 1
        /\ last.requests[1].method = "POST"
C9_Witness ==
    /\ last.op = "create"
    /\ last.resp.kind = "http"
    /\ last.resp.status = 201
    /\ "Location" \notin DOMAIN last.resp.headers
    /\ last.outcome.kind = "raise"
    /\ last.outcome.val = "KeyError"
    /\ Len(last.requests) = 1

\* C10: after any sequence of calls the base URL and the default headers are
\* those of construction, and two calls with the same arguments that get the
\* same response issue the same requests and end the same way, whatever came
\* between construction and each of them.
SameCall(c, d) ==
    /\ c.op = d.op
    /\ c.args = d.args
    /\ c.kwargs = d.kwargs
    /\ c.resp = d.resp
C10_Stateless ==
    /\ URL = BaseURL
    /\ headers = BaseHeaders
    /\ (prev.op # "none" /\ SameCall(prev, last)) =>
           /\ prev.requests = last.requests
           /\ prev.outcome.kind = last.outcome.kind
           /\ prev.outcome = last.outcome
    /\ \A r \in 1..Len(last.requests) :
           /\ last.requests[r].headers = BaseHeaders
           /\ SubSeq(last.requests[r].url, 1, Len(BaseURL)) = BaseURL
C10_Witness ==
    /\ prev.op = "create"
    /\ SameCall(prev, last)
    /\ last.outcome.kind = "return"
    /\ last.outcome.val = <<"b">>
    /\ URL = BaseURL
    /\ headers = BaseHeaders

====
